---- MODULE Spec2Model ----
(***************************************************************************)
(* A model of DhiCore (src/rust/src/lib.rs): the schema store, the         *)
(* type-descriptor parser, the builder operations, the cache analysis      *)
(* (invalidate_cache) and the single-value and batch validation engines.   *)
(*                                                                         *)
(* Strings that the code takes apart (type descriptors, object paths) are  *)
(* sequences of tokens: a keyword, a name, or one of the punctuation       *)
(* tokens "Array<", "Record<", "Union<", "enum:", ">", ",", ".", " ".      *)
(* Host (JavaScript) values are records tagged by `kind'.                  *)
(***************************************************************************)
EXTENDS Integers, Sequences, FiniteSets, TLC

VARIABLES
    schema,                     \* DhiCore.schema: field name -> FieldValidator
    order,                      \* iteration order of the root HashMap (a permutation of its keys)
    custom_types,               \* DhiCore.custom_types: type name -> schema
    has_complex_types,          \* cached analysis
    is_strict_primitive_schema,
    has_unions,
    has_mixed_arrays,
    strict_fields,              \* Vec<(key, tag)>
    fast_fields,                \* Vec<(key, FieldType)>
    presence_bitmap_cache,      \* field name -> bit
    last,                       \* the last call: its name, its arguments and what it returned
    call                        \* the validation call in progress: its stack of activations

vars == <<schema, order, custom_types, has_complex_types, is_strict_primitive_schema,
          has_unions, has_mixed_arrays, strict_fields, fast_fields,
          presence_bitmap_cache, last, call>>

cache == <<has_complex_types, is_strict_primitive_schema, has_unions, has_mixed_arrays,
           strict_fields, fast_fields, presence_bitmap_cache>>

-----------------------------------------------------------------------------
(* Program constants *)

CHUNK_SIZE == 32768
SIMD_BATCH_SIZE == 8
ASYM_BATCH_SIZE == 32
BITMAP_WIDTH == 32
\* the most activations a call stack holds
MaxStack == 6

-----------------------------------------------------------------------------
(* Host values (js_sys / wasm_bindgen JsValue) *)

Undefined == [kind |-> "undefined"]
Null      == [kind |-> "null"]
Str(s)    == [kind |-> "string", s |-> s]
Num       == [kind |-> "number"]
Bool(b)   == [kind |-> "boolean", b |-> b]
BigIntV   == [kind |-> "bigint"]
SymbolV   == [kind |-> "symbol"]
DateV     == [kind |-> "date"]
FuncV     == [kind |-> "function"]
Arr(es)   == [kind |-> "array", elems |-> es]
Obj(ps)   == [kind |-> "object", props |-> ps]

NoProps == [k \in {} |-> Undefined]

\* No validate or validate_batch call is in progress.
Idle == [pc |-> "idle"]

\* JsValue::is_undefined, is_null, is_string, as_f64().is_some(), as_bool().is_some(), ...
\* a slip: a loose test (value == null) that null passes too
is_undefined_loose(v) == v.kind \in {"undefined", "null"}
is_undefined(v) == v.kind = "undefined"
is_null(v)      == v.kind = "null"
is_string(v)    == v.kind = "string"
\* a slip: a numeric coercion (Number(null) is 0) in place of the type test
is_f64_coercing(v) == v.kind \in {"number", "null"}
is_f64(v)       == v.kind = "number"
is_bool(v)      == v.kind = "boolean"
is_bigint(v)    == v.kind = "bigint"
is_symbol(v)    == v.kind = "symbol"
is_date(v)      == v.kind = "date"

\* JsValue::is_object: typeof v === "object" && v !== null
is_object(v) == v.kind \in {"object", "array", "date"}

\* value.dyn_ref::<Object>(): v instanceof Object
is_Object(v) == v.kind \in {"object", "array", "date", "function"}

\* value.dyn_ref::<Array>(): Array.isArray(v)
is_Array(v) == v.kind = "array"

\* a function object that the host provides, e.g. the constructor Object
HostFunction(name) == [kind |-> "function", name |-> name]

\* the property "constructor" that every Object inherits from its prototype:
\* ({}).constructor is Object, [].constructor is Array, and the constructor of
\* a function (Object, Array and Function itself included) is Function
inherited_constructor(obj) ==
    CASE obj.kind = "function" -> HostFunction("Function")
      [] obj.kind = "array"    -> HostFunction("Array")
      [] obj.kind = "date"     -> HostFunction("Date")
      [] OTHER                 -> HostFunction("Object")

\* Reflect::get(obj, key) on a value that is an Object: the own property, else
\* the property inherited through the prototype chain, else undefined
Reflect_get(obj, key) ==
    IF obj.kind = "object" /\ key \in DOMAIN obj.props THEN obj.props[key]
    ELSE IF key = "constructor" /\ is_Object(obj) THEN inherited_constructor(obj)
    ELSE Undefined

\* Object::values(obj): the own enumerable property values
Object_values(obj) ==
    CASE obj.kind = "object" -> {obj.props[k] : k \in DOMAIN obj.props}
      [] obj.kind = "array"  -> {obj.elems[i] : i \in DOMAIN obj.elems}
      [] OTHER               -> {}

-----------------------------------------------------------------------------
(* FieldType, FieldValidator *)

TString    == [tag |-> "String"]
TNumber    == [tag |-> "Number"]
TBoolean   == [tag |-> "Boolean"]
TAny       == [tag |-> "Any"]
TDate      == [tag |-> "Date"]
TBigInt    == [tag |-> "BigInt"]
TSymbol    == [tag |-> "Symbol"]
TUndefined == [tag |-> "Undefined"]
TNull      == [tag |-> "Null"]
TVoid      == [tag |-> "Void"]
TUnknown   == [tag |-> "Unknown"]
TNever     == [tag |-> "Never"]
TArray(t)  == [tag |-> "Array", item |-> t]
TRecord(t) == [tag |-> "Record", item |-> t]
TObject(s) == [tag |-> "Object", fields |-> s]
TCustom(n) == [tag |-> "Custom", name |-> n]
TEnum(vs)  == [tag |-> "Enum", values |-> vs]
TUnion(ts) == [tag |-> "Union", types |-> ts]

EmptySchema == [n \in {} |-> TAny]

FieldValidator(ft, req, k) == [field_type |-> ft, required |-> req, key |-> k]

\* HashMap::insert: add the entry, or replace the value of an existing key
Insert(map, k, v) == [n \in (DOMAIN map) \cup {k} |-> IF n = k THEN v ELSE map[n]]

-----------------------------------------------------------------------------
(* Strings as token sequences *)

RECURSIVE Concat(_)
Concat(toks) == IF toks = <<>> THEN "" ELSE Head(toks) \o Concat(Tail(toks))

\* str::split(sep): the pieces between the separators; always at least one piece
RECURSIVE Split(_, _)
Split(toks, sep) ==
    IF \A i \in DOMAIN toks : toks[i] # sep
    THEN <<toks>>
    ELSE LET i == CHOOSE j \in DOMAIN toks :
                      toks[j] = sep /\ \A k \in 1..(j - 1) : toks[k] # sep
         IN  <<SubSeq(toks, 1, i - 1)>> \o Split(SubSeq(toks, i + 1, Len(toks)), sep)

\* str::trim
RECURSIVE Trim(_)
Trim(toks) ==
    IF toks = <<>> THEN toks
    ELSE IF Head(toks) = " " THEN Trim(Tail(toks))
    ELSE IF toks[Len(toks)] = " " THEN Trim(SubSeq(toks, 1, Len(toks) - 1))
    ELSE toks

strip_prefix(toks, p) == IF toks # <<>> /\ Head(toks) = p
                         THEN [some |-> TRUE, rest |-> Tail(toks)]
                         ELSE [some |-> FALSE, rest |-> <<>>]

strip_suffix(toks, p) == IF toks # <<>> /\ toks[Len(toks)] = p
                         THEN [some |-> TRUE, rest |-> SubSeq(toks, 1, Len(toks) - 1)]
                         ELSE [some |-> FALSE, rest |-> <<>>]

\* s.strip_prefix(p).and_then(|s| s.strip_suffix(">"))
strip_brackets(toks, p) ==
    LET a == strip_prefix(toks, p)
    IN  IF a.some THEN strip_suffix(a.rest, ">") ELSE a

-----------------------------------------------------------------------------
(* parse_field_type *)

ParseOk(t) == [ok |-> TRUE, ty |-> t]
ParseErr   == [ok |-> FALSE, ty |-> TAny]

RECURSIVE parse_field_type(_, _)

\* the loop over type_parts: push each parsed part, `?' returns the first error
RECURSIVE parse_union_parts(_, _, _)
parse_union_parts(ct, parts, acc) ==
    IF parts = <<>> THEN ParseOk(TUnion(acc))
    ELSE LET p == parse_field_type(ct, Trim(Head(parts)))
         IN  IF p.ok THEN parse_union_parts(ct, Tail(parts), Append(acc, p.ty))
             ELSE ParseErr

parse_enum_values(rest) ==
    LET pieces == Split(rest, ",")
    IN  [i \in DOMAIN pieces |-> Concat(pieces[i])]

parse_field_type(ct, field_type) ==
    CASE field_type = <<"string">>    -> ParseOk(TString)
      [] field_type = <<"number">>    -> ParseOk(TNumber)
      [] field_type = <<"boolean">>   -> ParseOk(TBoolean)
      [] field_type = <<"object">>    -> ParseOk(TObject(EmptySchema))
      [] field_type = <<"record">>    -> ParseOk(TRecord(TAny))
      [] field_type = <<"date">>      -> ParseOk(TDate)
      [] field_type = <<"bigint">>    -> ParseOk(TBigInt)
      [] field_type = <<"symbol">>    -> ParseOk(TSymbol)
      [] field_type = <<"undefined">> -> ParseOk(TUndefined)
      [] field_type = <<"null">>      -> ParseOk(TNull)
      [] field_type = <<"void">>      -> ParseOk(TVoid)
      [] field_type = <<"unknown">>   -> ParseOk(TUnknown)
      [] field_type = <<"never">>     -> ParseOk(TNever)
      [] OTHER ->
            LET en == strip_prefix(field_type, "enum:")
                ar == strip_brackets(field_type, "Array<")
                re == strip_brackets(field_type, "Record<")
                un == strip_brackets(field_type, "Union<")
            IN  IF en.some THEN ParseOk(TEnum(parse_enum_values(en.rest)))
                ELSE IF ar.some THEN
                    LET inner == parse_field_type(ct, ar.rest)
                    IN  IF inner.ok THEN ParseOk(TArray(inner.ty)) ELSE ParseErr
                ELSE IF re.some THEN
                    LET inner == parse_field_type(ct, re.rest)
                    IN  IF inner.ok THEN ParseOk(TRecord(inner.ty)) ELSE ParseErr
                ELSE IF un.some THEN parse_union_parts(ct, Split(un.rest, ","), <<>>)
                ELSE IF Concat(field_type) \in DOMAIN ct
                     THEN ParseOk(TCustom(Concat(field_type)))
                ELSE ParseErr

-----------------------------------------------------------------------------
(* The validation engine: single value *)

RECURSIVE validate_value_bool(_, _)
RECURSIVE validate_object_bool(_, _)
RECURSIVE validate_array_optimized(_, _)
RECURSIVE union_any(_, _)

Min(a, b) == IF a < b THEN a ELSE b

\* (0..len).step_by(step)
StepBy(len, step) == {k \in 0..(len - 1) : k % step = 0}

validate_primitive_type(value, tag) ==
    CASE tag = 0 -> is_string(value)
      [] tag = 1 -> is_f64(value)
      [] tag = 2 -> is_bool(value)
      [] OTHER   -> FALSE

validate_string_array_simd(array, len) ==
    \A batch_start \in StepBy(len, SIMD_BATCH_SIZE) :
        \A i \in batch_start..(Min(batch_start + SIMD_BATCH_SIZE, len) - 1) :
            is_string(array.elems[i + 1])

validate_number_array_simd(array, len) ==
    \A batch_start \in StepBy(len, SIMD_BATCH_SIZE) :
        \A i \in batch_start..(Min(batch_start + SIMD_BATCH_SIZE, len) - 1) :
            is_f64(array.elems[i + 1])

validate_boolean_array_simd(array, len) ==
    \A batch_start \in StepBy(len, SIMD_BATCH_SIZE) :
        \A i \in batch_start..(Min(batch_start + SIMD_BATCH_SIZE, len) - 1) :
            is_bool(array.elems[i + 1])

validate_array_optimized(array, item_type) ==
    LET len == Len(array.elems)
    IN  IF len = 0 THEN TRUE
        ELSE CASE item_type.tag = "String"  -> validate_string_array_simd(array, len)
               [] item_type.tag = "Number"  -> validate_number_array_simd(array, len)
               [] item_type.tag = "Boolean" -> validate_boolean_array_simd(array, len)
               [] OTHER ->
                    \A chunk_start \in StepBy(len, SIMD_BATCH_SIZE) :
                        \A i \in chunk_start..(Min(chunk_start + SIMD_BATCH_SIZE, len) - 1) :
                            validate_value_bool(array.elems[i + 1], item_type)

\* a slip: the required test is dropped, so an absent required field is skipped
field_ok_ignores_required(obj, validator) ==
    LET field_value == Reflect_get(obj, validator.key)
    IN  ~is_undefined(field_value) =>
            validate_value_bool(field_value, validator.field_type)

\* the per-field rule of validate_object_bool: required presence, then the type
field_ok(obj, validator) ==
    LET field_value == Reflect_get(obj, validator.key)
    IN  /\ ~(validator.required /\ is_undefined(field_value))
        /\ (~is_undefined(field_value) =>
                validate_value_bool(field_value, validator.field_type))

validate_object_bool(value, sch) ==
    /\ is_Object(value)
    /\ \A f \in DOMAIN sch : field_ok(value, sch[f])

IsPrimitiveType(t) == t.tag \in {"String", "Number", "Boolean"}
IsComplexMember(t) == ~IsPrimitiveType(t)

\* for field_type in list { if validate_value_bool(value, field_type) { return true } }
union_any(value, types) ==
    IF types = <<>> THEN FALSE
    ELSE IF validate_value_bool(value, Head(types)) THEN TRUE
    ELSE union_any(value, Tail(types))

\* a slip: the complex members are never tried
validate_union_primitives_only(value, union_types) ==
    union_any(value, SelectSeq(union_types, IsPrimitiveType))

validate_union(value, union_types) ==
    LET primitive_types == SelectSeq(union_types, IsPrimitiveType)
        complex_types   == SelectSeq(union_types, IsComplexMember)
    IN  IF union_any(value, primitive_types) THEN TRUE
        ELSE union_any(value, complex_types)

\* a slip: the comparison folds case
ToLower(s) == IF s = "Red" THEN "red" ELSE s
validate_enum_ignoring_case(value, allowed_values) ==
    IF is_string(value)
    THEN \E i \in DOMAIN allowed_values : ToLower(allowed_values[i]) = ToLower(value.s)
    ELSE FALSE

validate_enum(value, allowed_values) ==
    IF is_string(value)
    THEN \E i \in DOMAIN allowed_values : allowed_values[i] = value.s
    ELSE FALSE

validate_custom(value, type_name) ==
    IF type_name \in DOMAIN custom_types
    THEN validate_object_bool(value, custom_types[type_name])
    ELSE TRUE

validate_record(value, value_type) ==
    /\ is_Object(value)
    /\ \A v \in Object_values(value) : validate_value_bool(v, value_type)

validate_value_bool(value, field_type) ==
    CASE field_type.tag = "String"    -> is_string(value)
      [] field_type.tag = "Number"    -> is_f64(value)
      [] field_type.tag = "Boolean"   -> is_bool(value)
      [] field_type.tag = "Array"     ->
            IF is_Array(value) THEN validate_array_optimized(value, field_type.item)
            ELSE FALSE
      [] field_type.tag = "Object"    -> validate_object_bool(value, field_type.fields)
      [] field_type.tag = "Custom"    -> validate_custom(value, field_type.name)
      [] field_type.tag = "Record"    -> validate_record(value, field_type.item)
      [] field_type.tag = "Date"      -> is_date(value)
      [] field_type.tag = "BigInt"    -> is_bigint(value)
      [] field_type.tag = "Symbol"    -> is_symbol(value)
      [] field_type.tag = "Undefined" -> is_undefined(value)
      [] field_type.tag = "Null"      -> is_null(value)
      [] field_type.tag = "Void"      -> is_undefined(value)
      [] field_type.tag = "Unknown"   -> TRUE
      [] field_type.tag = "Never"     -> FALSE
      [] field_type.tag = "Any"       -> TRUE
      [] field_type.tag = "Enum"      -> validate_enum(value, field_type.values)
      [] field_type.tag = "Union"     -> validate_union(value, field_type.types)

\* a slip: the type of an optional field is checked even when the property is absent
root_field_ok_checks_absent(obj, validator) ==
    LET field_value == Reflect_get(obj, validator.key)
    IN  /\ ~(validator.required /\ is_undefined(field_value))
        /\ validate_value_bool(field_value, validator.field_type)

\* one iteration of the loop over self.schema (both match arms)
root_field_ok(obj, validator) ==
    LET field_value == Reflect_get(obj, validator.key)
    IN  /\ ~(validator.required /\ is_undefined(field_value))
        /\ (~is_undefined(field_value) =>
                IF validator.field_type.tag = "Object"
                THEN validate_object_bool(field_value, validator.field_type.fields)
                ELSE validate_value_bool(field_value, validator.field_type))

validate_value_internal(value) ==
    /\ is_object(value)
    /\ is_Object(value)
    /\ \A f \in DOMAIN schema : root_field_ok(value, schema[f])

-----------------------------------------------------------------------------
(* The schema analyzer: invalidate_cache *)

\* u32 bit operations. A u32 is written as the set of the positions (0..31) of
\* its 1 bits, so that bit 31 needs no integer beyond 2^31 - 1.
U32Zero == {}
BitAnd(a, b) == a \cap b
BitOr(a, b) == a \cup b

\* a slip: the bit is not shifted, so every field gets bit 0
Shl1_no_shift(i) == {0}

\* 1u32 << i, for i < 32
Shl1(i) == {i}

IsComplexType(t) == t.tag \in {"Object", "Array", "Custom", "Union"}

compute_has_complex_types(sch) == \E f \in DOMAIN sch : IsComplexType(sch[f].field_type)

compute_has_unions(sch) == \E f \in DOMAIN sch : sch[f].field_type.tag = "Union"

compute_has_mixed_arrays(sch) ==
    /\ \E f \in DOMAIN sch : sch[f].field_type.tag = "Array"
    /\ \E f \in DOMAIN sch : sch[f].field_type.tag = "Object"

compute_is_strict_primitive_schema(sch) ==
    /\ ~compute_has_complex_types(sch)
    /\ \A f \in DOMAIN sch : sch[f].required /\ IsPrimitiveType(sch[f].field_type)

type_tag(t) ==
    CASE t.tag = "String"  -> 0
      [] t.tag = "Number"  -> 1
      [] t.tag = "Boolean" -> 2
      [] OTHER             -> 255

compute_strict_fields(sch, ord) ==
    IF compute_is_strict_primitive_schema(sch)
    THEN [i \in DOMAIN ord |-> <<sch[ord[i]].key, type_tag(sch[ord[i]].field_type)>>]
    ELSE <<>>

compute_fast_fields(sch, ord) ==
    IF ~compute_has_complex_types(sch)
    THEN [i \in DOMAIN ord |-> <<sch[ord[i]].key, sch[ord[i]].field_type>>]
    ELSE <<>>

compute_presence_bitmap_cache(sch, ord) ==
    LET firsts == {i \in DOMAIN ord : i - 1 < BITMAP_WIDTH}
    IN  [n \in {ord[i] : i \in firsts} |->
            Shl1((CHOOSE i \in firsts : ord[i] = n) - 1)]

\* self.invalidate_cache() after the schema has become sch, iterated in the order ord
invalidate_cache(sch, ord) ==
    /\ has_complex_types' = compute_has_complex_types(sch)
    /\ has_unions' = compute_has_unions(sch)
    /\ has_mixed_arrays' = compute_has_mixed_arrays(sch)
    /\ is_strict_primitive_schema' = compute_is_strict_primitive_schema(sch)
    /\ strict_fields' = compute_strict_fields(sch, ord)
    /\ fast_fields' = compute_fast_fields(sch, ord)
    /\ presence_bitmap_cache' = compute_presence_bitmap_cache(sch, ord)

-----------------------------------------------------------------------------
(* The validation engine: batch tiers *)

from_bool(b) == Bool(b)

\* results.set(offset + i, from_bool(valid[i])) for every object i of the window
set_window(results, offset, valid) ==
    [j \in DOMAIN results |->
        IF j - 1 \in offset..(offset + Len(valid) - 1)
        THEN from_bool(valid[j - offset])
        ELSE results[j]]

strict_checks(obj, n) ==
    /\ \A k \in 1..n : ~is_undefined(Reflect_get(obj, strict_fields[k][1]))
    /\ \A k \in 1..n :
          validate_primitive_type(Reflect_get(obj, strict_fields[k][1]), strict_fields[k][2])

valid_1_field(obj_val) ==
    IF is_Object(obj_val)
    THEN LET value == Reflect_get(obj_val, strict_fields[1][1])
             field_tag == strict_fields[1][2]
         IN  /\ ~is_undefined(value)
             /\ CASE field_tag = 0 -> is_string(value)
                  [] field_tag = 1 -> is_f64(value)
                  [] field_tag = 2 -> is_bool(value)
                  [] OTHER         -> FALSE
    ELSE FALSE

valid_2_fields(obj_val) == IF is_Object(obj_val) THEN strict_checks(obj_val, 2) ELSE FALSE
\* a slip: the unrolled variant for three fields reads only the first two
valid_3_fields_checks_two(obj_val) ==
    IF is_Object(obj_val) THEN strict_checks(obj_val, 2) ELSE FALSE
valid_3_fields(obj_val) == IF is_Object(obj_val) THEN strict_checks(obj_val, 3) ELSE FALSE
valid_4_fields(obj_val) == IF is_Object(obj_val) THEN strict_checks(obj_val, 4) ELSE FALSE

valid_n_fields(obj_val) ==
    IF is_Object(obj_val)
    THEN \A k \in DOMAIN strict_fields :
            LET value == Reflect_get(obj_val, strict_fields[k][1])
            IN  ~is_undefined(value) /\ validate_primitive_type(value, strict_fields[k][2])
    ELSE FALSE

validate_batch_1_field(objects, results, offset) ==
    set_window(results, offset, [i \in DOMAIN objects |-> valid_1_field(objects[i])])
validate_batch_2_fields(objects, results, offset) ==
    set_window(results, offset, [i \in DOMAIN objects |-> valid_2_fields(objects[i])])
validate_batch_3_fields(objects, results, offset) ==
    set_window(results, offset, [i \in DOMAIN objects |-> valid_3_fields(objects[i])])
validate_batch_4_fields(objects, results, offset) ==
    set_window(results, offset, [i \in DOMAIN objects |-> valid_4_fields(objects[i])])
validate_batch_n_fields(objects, results, offset) ==
    set_window(results, offset, [i \in DOMAIN objects |-> valid_n_fields(objects[i])])

\* the loop of validate_batch_simd_primitives, from window batch_start on
RECURSIVE simd_primitives_from(_, _, _, _)
simd_primitives_from(items, results, len, batch_start) ==
    IF batch_start >= len THEN results
    ELSE LET batch_end   == Min(batch_start + SIMD_BATCH_SIZE, len)
             objects     == SubSeq(items, batch_start + 1, batch_end)
             field_count == Len(strict_fields)
             done ==
                CASE field_count = 1 -> validate_batch_1_field(objects, results, batch_start)
                  [] field_count = 2 -> validate_batch_2_fields(objects, results, batch_start)
                  [] field_count = 3 -> validate_batch_3_fields(objects, results, batch_start)
                  [] field_count = 4 -> validate_batch_4_fields(objects, results, batch_start)
                  [] OTHER           -> validate_batch_n_fields(objects, results, batch_start)
         IN  simd_primitives_from(items, done, len, batch_start + SIMD_BATCH_SIZE)

validate_batch_simd_primitives(items, results, len) ==
    simd_primitives_from(items, results, len, 0)

valid_vectorized(item) ==
    IF is_Object(item)
    THEN \A k \in DOMAIN fast_fields :
            validate_value_bool(Reflect_get(item, fast_fields[k][1]), fast_fields[k][2])
    ELSE FALSE

RECURSIVE vectorized_from(_, _, _, _)
vectorized_from(items, results, len, chunk_start) ==
    IF chunk_start >= len THEN results
    ELSE LET chunk_end == Min(chunk_start + CHUNK_SIZE, len)
             window == SubSeq(items, chunk_start + 1, chunk_end)
             done == set_window(results, chunk_start,
                                [i \in DOMAIN window |-> valid_vectorized(window[i])])
         IN  vectorized_from(items, done, len, chunk_start + CHUNK_SIZE)

validate_batch_vectorized(items, results, len) == vectorized_from(items, results, len, 0)

IsStrOrNum(v) == is_string(v) \/ is_f64(v)

\* the hardcoded union validator: it reads the properties type, value, config,
\* config.mode and config.options, whatever the registered schema is
validate_union_ultra_fast(value) ==
    IF ~is_object(value) \/ ~is_Object(value) THEN FALSE
    ELSE
    LET type_val    == Reflect_get(value, "type")
        value_val   == Reflect_get(value, "value")
        config_val  == Reflect_get(value, "config")
        mode_val    == Reflect_get(config_val, "mode")
        options_val == Reflect_get(config_val, "options")
        string_opt  == Reflect_get(options_val, "stringOpt")
        number_opt  == Reflect_get(options_val, "numberOpt")
        bool_opt    == Reflect_get(options_val, "boolOpt")
    IN  IF ~IsStrOrNum(type_val) THEN FALSE
        ELSE IF ~(\/ is_string(value_val) \/ is_f64(value_val) \/ is_bool(value_val)
                  \/ (is_Array(value_val) /\
                        \A i \in DOMAIN value_val.elems : is_string(value_val.elems[i])))
             THEN FALSE
        ELSE IF ~is_Object(config_val) THEN FALSE
        ELSE IF ~IsStrOrNum(mode_val) THEN FALSE
        ELSE IF ~is_Object(options_val) THEN FALSE
        ELSE IF ~is_undefined(string_opt) THEN is_string(string_opt)
        ELSE IF ~is_undefined(number_opt) THEN is_f64(number_opt)
        ELSE IF ~is_undefined(bool_opt) THEN is_bool(bool_opt)
        ELSE FALSE

mixed_user_ok(user) ==
    /\ is_Object(user)
    /\ is_string(Reflect_get(user, "name"))
    /\ is_f64(Reflect_get(user, "age"))
    /\ is_Object(Reflect_get(user, "preferences"))
    /\ is_string(Reflect_get(Reflect_get(user, "preferences"), "theme"))
    /\ is_bool(Reflect_get(Reflect_get(user, "preferences"), "notifications"))

mixed_meta_ok(meta) ==
    /\ is_Object(meta)
    /\ is_string(Reflect_get(meta, "key"))
    /\ LET v == Reflect_get(meta, "value") IN is_string(v) \/ is_f64(v) \/ is_bool(v)

\* the hardcoded mixed validator: it reads users, settings and metadata
validate_mixed_ultra_fast(value) ==
    IF ~is_object(value) \/ ~is_Object(value) THEN FALSE
    ELSE
    LET users_val    == Reflect_get(value, "users")
        settings_val == Reflect_get(value, "settings")
        features_val == Reflect_get(settings_val, "features")
        metadata_val == Reflect_get(value, "metadata")
    IN  /\ is_Array(users_val)
        /\ \A i \in DOMAIN users_val.elems : mixed_user_ok(users_val.elems[i])
        /\ is_Object(settings_val)
        /\ is_string(Reflect_get(settings_val, "version"))
        /\ is_Array(features_val)
        /\ \A i \in DOMAIN features_val.elems : is_string(features_val.elems[i])
        /\ is_Array(metadata_val)
        /\ \A i \in DOMAIN metadata_val.elems : mixed_meta_ok(metadata_val.elems[i])

\* the loop of validate_asymmetric_fast from position i of the schema's iteration
RECURSIVE asymmetric_from(_, _, _, _)
asymmetric_from(obj, i, present_mask, required_mask) ==
    IF i >= Len(order) \/ i >= BITMAP_WIDTH
    THEN BitAnd(present_mask, required_mask) = required_mask
    ELSE LET validator   == schema[order[i + 1]]
             bit         == Shl1(i)
             req         == IF validator.required THEN BitOr(required_mask, bit)
                            ELSE required_mask
             field_value == Reflect_get(obj, validator.key)
         IN  IF ~is_undefined(field_value)
             THEN IF ~validate_value_bool(field_value, validator.field_type) THEN FALSE
                  ELSE asymmetric_from(obj, i + 1, BitOr(present_mask, bit), req)
             ELSE asymmetric_from(obj, i + 1, present_mask, req)

validate_asymmetric_fast(value) ==
    IF ~is_object(value) \/ ~is_Object(value) THEN FALSE
    ELSE asymmetric_from(value, 0, U32Zero, U32Zero)

validate_batch_unions_mega_optimized(items, results, len) ==
    [i \in DOMAIN results |-> from_bool(validate_union_ultra_fast(items[i]))]

validate_batch_mixed_mega_optimized(items, results, len) ==
    [i \in DOMAIN results |-> from_bool(validate_mixed_ultra_fast(items[i]))]

RECURSIVE asymmetric_optimized_from(_, _, _, _)
asymmetric_optimized_from(items, results, len, batch_start) ==
    IF batch_start >= len THEN results
    ELSE LET batch_end == Min(batch_start + ASYM_BATCH_SIZE, len)
             window == SubSeq(items, batch_start + 1, batch_end)
             done == set_window(results, batch_start,
                                [i \in DOMAIN window |-> validate_asymmetric_fast(window[i])])
         IN  asymmetric_optimized_from(items, done, len, batch_start + ASYM_BATCH_SIZE)

validate_batch_asymmetric_optimized(items, results, len) ==
    asymmetric_optimized_from(items, results, len, 0)

\* the tier validate_batch dispatches to
dispatch_tier ==
    IF is_strict_primitive_schema THEN "strict"
    ELSE IF has_unions THEN "union"
    ELSE IF has_mixed_arrays THEN "mixed"
    ELSE IF ~has_complex_types THEN "vectorized"
    ELSE "asymmetric"

validate_batch_results(items) ==
    LET len     == Len(items)
        results == [i \in 1..len |-> Undefined]
    IN  CASE dispatch_tier = "strict"     -> validate_batch_simd_primitives(items, results, len)
          [] dispatch_tier = "union"      -> validate_batch_unions_mega_optimized(items, results, len)
          [] dispatch_tier = "mixed"      -> validate_batch_mixed_mega_optimized(items, results, len)
          [] dispatch_tier = "vectorized" -> validate_batch_vectorized(items, results, len)
          [] OTHER                        -> validate_batch_asymmetric_optimized(items, results, len)

-----------------------------------------------------------------------------
(* The builder operations *)

Ok == "Ok"
ErrUnsupportedType == "Unsupported type"
ErrCustomTypeNotDefined == "Custom type not defined"
ErrInvalidObjectPath == "Invalid object path"

Perms(S) == {p \in [1..Cardinality(S) -> S] : \A i, j \in DOMAIN p : p[i] = p[j] => i = j}

\* The iteration orders the root HashMap can have after insert(name, _): replacing
\* the value of an existing key moves nothing; a new key lands anywhere, and a
\* resize may move every key.
root_orders_after_insert(name) ==
    IF name \in DOMAIN schema THEN {order} ELSE Perms((DOMAIN schema) \cup {name})

\* The iteration orders explored for a configuration c. With c.O, a sequence of
\* names, the map iterates its keys in the order they have in c.O (one fixed
\* hasher); without it, every order root_orders_after_insert allows.
orders_after_insert(c, name) ==
    IF "O" \in DOMAIN c
    THEN {SelectSeq(c.O, LAMBDA n : n \in (DOMAIN schema) \cup {name})}
    ELSE root_orders_after_insert(name)

\* object_path.split('.') as strings
path_parts(object_path) ==
    LET pieces == Split(object_path, ".")
    IN  [i \in DOMAIN pieces |-> Concat(pieces[i])]

\* the navigation loop of add_nested_field: does every part name an Object field?
RECURSIVE navigate_ok(_, _)
navigate_ok(current_schema, parts) ==
    IF parts = <<>> THEN TRUE
    ELSE LET part == Head(parts)
         IN  IF part \in DOMAIN current_schema
                /\ current_schema[part].field_type.tag = "Object"
             THEN navigate_ok(current_schema[part].field_type.fields, Tail(parts))
             ELSE FALSE

\* a slip: the navigation result is dropped and the field goes into the root schema
insert_at_root(current_schema, parts, field_name, validator) ==
    Insert(current_schema, field_name, validator)

\* the schema after current_schema.insert(field_name, validator) at the end of the navigation
RECURSIVE insert_at(_, _, _, _)
insert_at(current_schema, parts, field_name, validator) ==
    IF parts = <<>> THEN Insert(current_schema, field_name, validator)
    ELSE [current_schema EXCEPT ![Head(parts)].field_type.fields =
              insert_at(@, Tail(parts), field_name, validator)]

\* a slip: the contains_key test is dropped, so a registered type is reset
define_custom_type_always_inserts(type_name) ==
    /\ custom_types' = Insert(custom_types, type_name, EmptySchema)
    /\ UNCHANGED call
    /\ last' = [op |-> "define_custom_type", type_name |-> type_name, result |-> Ok]
    /\ UNCHANGED <<schema, order, cache>>

\* a slip: the registry is rebuilt around the one name, dropping the others
define_custom_type_replaces_registry(type_name) ==
    /\ custom_types' = [n \in {type_name} |->
                          IF n \in DOMAIN custom_types THEN custom_types[n] ELSE EmptySchema]
    /\ UNCHANGED call
    /\ last' = [op |-> "define_custom_type", type_name |-> type_name, result |-> Ok]
    /\ UNCHANGED <<schema, order, cache>>

define_custom_type(type_name) ==
    /\ custom_types' = IF type_name \notin DOMAIN custom_types
                       THEN Insert(custom_types, type_name, EmptySchema)
                       ELSE custom_types
    /\ UNCHANGED call
    /\ last' = [op |-> "define_custom_type", type_name |-> type_name, result |-> Ok]
    /\ UNCHANGED <<schema, order, cache>>

\* a slip: the field is inserted before the descriptor is parsed
add_field_to_custom_type_inserts_first(type_name, field_name, field_type, required) ==
    LET parsed == parse_field_type(custom_types, field_type)
        res == IF ~parsed.ok THEN ErrUnsupportedType
               ELSE IF type_name \notin DOMAIN custom_types THEN ErrCustomTypeNotDefined
               ELSE Ok
    IN  /\ custom_types' =
              IF type_name \in DOMAIN custom_types
              THEN [custom_types EXCEPT ![type_name] =
                       Insert(@, field_name, FieldValidator(parsed.ty, required, field_name))]
              ELSE custom_types
        /\ UNCHANGED call
        /\ last' = [op |-> "add_field_to_custom_type", type_name |-> type_name,
                    field_name |-> field_name, field_type |-> field_type,
                    required |-> required, result |-> res]
        /\ UNCHANGED <<schema, order, cache>>

add_field_to_custom_type(type_name, field_name, field_type, required) ==
    LET parsed == parse_field_type(custom_types, field_type)
        res == IF ~parsed.ok THEN ErrUnsupportedType
               ELSE IF type_name \notin DOMAIN custom_types THEN ErrCustomTypeNotDefined
               ELSE Ok
    IN  /\ custom_types' =
              IF res = Ok
              THEN [custom_types EXCEPT ![type_name] =
                       Insert(@, field_name, FieldValidator(parsed.ty, required, field_name))]
              ELSE custom_types
        /\ UNCHANGED call
        /\ last' = [op |-> "add_field_to_custom_type", type_name |-> type_name,
                    field_name |-> field_name, field_type |-> field_type,
                    required |-> required, result |-> res]
        /\ UNCHANGED <<schema, order, cache>>

add_field(name, field_type, required, ord) ==
    LET parsed == parse_field_type(custom_types, field_type)
        sch == Insert(schema, name, FieldValidator(parsed.ty, required, name))
    IN  /\ ord \in root_orders_after_insert(name)
        /\ IF parsed.ok
           THEN /\ schema' = sch
                /\ order' = ord
                /\ invalidate_cache(sch, ord)
           ELSE UNCHANGED <<schema, order, cache>>
        /\ UNCHANGED call
        /\ last' = [op |-> "add_field", field_name |-> name, field_type |-> field_type,
                    required |-> required,
                    result |-> IF parsed.ok THEN Ok ELSE ErrUnsupportedType]
        /\ UNCHANGED custom_types

add_object_field(name, required, ord) ==
    LET sch == Insert(schema, name, FieldValidator(TObject(EmptySchema), required, name))
    IN  /\ ord \in root_orders_after_insert(name)
        /\ schema' = sch
        /\ order' = ord
        /\ invalidate_cache(sch, ord)
        /\ UNCHANGED call
        /\ last' = [op |-> "add_object_field", field_name |-> name, required |-> required,
                    result |-> Ok]
        /\ UNCHANGED custom_types

add_nested_field(object_path, field_name, field_type, required, ord) ==
    LET parsed == parse_field_type(custom_types, field_type)
        validator == FieldValidator(parsed.ty, required, field_name)
        parts == path_parts(object_path)
        res == IF ~parsed.ok THEN ErrUnsupportedType
               ELSE IF object_path = <<>> THEN Ok
               ELSE IF navigate_ok(schema, parts) THEN Ok
               ELSE ErrInvalidObjectPath
        sch == IF object_path = <<>> THEN Insert(schema, field_name, validator)
               ELSE insert_at(schema, parts, field_name, validator)
    IN  /\ ord \in (IF object_path = <<>> THEN root_orders_after_insert(field_name)
                    ELSE {order})
        /\ IF res = Ok
           THEN /\ schema' = sch
                /\ order' = ord
                /\ invalidate_cache(sch, ord)
           ELSE UNCHANGED <<schema, order, cache>>
        /\ UNCHANGED call
        /\ last' = [op |-> "add_nested_field", object_path |-> object_path,
                    field_name |-> field_name, field_type |-> field_type,
                    required |-> required, result |-> res]
        /\ UNCHANGED custom_types

\* self.schema.iter_mut().last(): the entry the map iterates last, if any
last_field == IF order = <<>> THEN {} ELSE {order[Len(order)]}

set_optional(optional) ==
    /\ schema' = [f \in DOMAIN schema |->
                    IF f \in last_field THEN [schema[f] EXCEPT !.required = ~optional]
                    ELSE schema[f]]
    /\ UNCHANGED call
    /\ last' = [op |-> "set_optional", flag |-> optional]
    /\ UNCHANGED <<order, custom_types, cache>>

set_nullable(nullable) ==
    /\ schema' = [f \in DOMAIN schema |->
                    IF f \in last_field THEN [schema[f] EXCEPT !.required = ~nullable]
                    ELSE schema[f]]
    /\ UNCHANGED call
    /\ last' = [op |-> "set_nullable", flag |-> nullable]
    /\ UNCHANGED <<order, custom_types, cache>>

value_type_of(value_type) ==
    CASE value_type = <<"string">>  -> TString
      [] value_type = <<"number">>  -> TNumber
      [] value_type = <<"boolean">> -> TBoolean
      [] OTHER                      -> TAny

set_value_type(value_type) ==
    /\ schema' = [f \in DOMAIN schema |->
                    IF f \in last_field
                    THEN [schema[f] EXCEPT !.field_type = value_type_of(value_type)]
                    ELSE schema[f]]
    /\ UNCHANGED call
    /\ last' = [op |-> "set_value_type", value_type |-> value_type]
    /\ UNCHANGED <<order, custom_types, cache>>

validate(value) ==
    /\ UNCHANGED call
    /\ last' = [op |-> "validate", value |-> value,
                result |-> validate_value_internal(value)]
    /\ UNCHANGED <<schema, order, custom_types, cache>>

validate_batch(items) ==
    /\ UNCHANGED call
    /\ last' = [op |-> "validate_batch", items |-> items,
                result |-> validate_batch_results(items)]
    /\ UNCHANGED <<schema, order, custom_types, cache>>

-----------------------------------------------------------------------------
(* Validation one activation at a time: the call stack of validate and of     *)
(* validate_batch. A frame is one activation that loops over nested calls     *)
(* (the fields of a schema, the elements of an array, the values of a record, *)
(* the members of a union); `ret' is what the callee that just returned gave  *)
(* back to the frame on top.                                                  *)

NoReturn == "none"
Returned(b) == IF b THEN "true" ELSE "false"

\* the validators of a HashMap, listed in one order
validators_of(sch) ==
    LET names == CHOOSE p \in Perms(DOMAIN sch) : TRUE
    IN  [i \in DOMAIN names |-> sch[names[i]]]

\* An activation: fn names the loop, value is the value it validates, list the
\* validators or types it walks, todo the positions not visited yet; in_order
\* says the loop visits them in ascending position (a Vec, an Array, the root
\* map whose order is `order'), otherwise in whatever order the map iterates.
Frame(fn, value, list, todo, in_order) ==
    [fn |-> fn, value |-> value, list |-> list, todo |-> todo, in_order |-> in_order,
     present_mask |-> U32Zero, required_mask |-> U32Zero]

\* does validate_value_bool(value, field_type) make nested calls?
makes_calls(value, field_type) ==
    CASE field_type.tag = "Array"  ->
            /\ is_Array(value)
            /\ Len(value.elems) > 0
            /\ field_type.item.tag \notin {"String", "Number", "Boolean"}
      [] field_type.tag = "Object" -> is_Object(value)
      [] field_type.tag = "Custom" ->
            field_type.name \in DOMAIN custom_types /\ is_Object(value)
      [] field_type.tag = "Record" -> is_Object(value)
      [] field_type.tag = "Union"  -> TRUE
      [] OTHER                     -> FALSE

\* the keys Object::values(obj) reads
value_keys(obj) ==
    CASE obj.kind = "object" -> DOMAIN obj.props
      [] obj.kind = "array"  -> DOMAIN obj.elems
      [] OTHER               -> {}

\* the activation validate_value_bool(value, field_type) opens when it makes calls
frame_of(value, field_type) ==
    CASE field_type.tag = "Array"  ->
            Frame("validate_array_optimized", value, <<field_type.item>>,
                  DOMAIN value.elems, TRUE)
      [] field_type.tag = "Object" ->
            LET list == validators_of(field_type.fields)
            IN  Frame("validate_object_bool", value, list, DOMAIN list, FALSE)
      [] field_type.tag = "Custom" ->
            LET list == validators_of(custom_types[field_type.name])
            IN  Frame("validate_object_bool", value, list, DOMAIN list, FALSE)
      [] field_type.tag = "Record" ->
            Frame("Record", value, <<field_type.item>>, value_keys(value), FALSE)
      [] field_type.tag = "Union"  ->
            LET list == SelectSeq(field_type.types, IsPrimitiveType)
                            \o SelectSeq(field_type.types, IsComplexMember)
            IN  Frame("Union", value, list, DOMAIN list, TRUE)

\* the positions the loop of frame may visit next
next_positions(frame) ==
    IF frame.todo = {} THEN {}
    ELSE IF frame.in_order
         THEN {CHOOSE k \in frame.todo : \A j \in frame.todo : k <= j}
         ELSE frame.todo

\* the value and the type of the nested call the loop makes at position k
callee(frame, k) ==
    CASE frame.fn = "validate_array_optimized" ->
            [value |-> frame.value.elems[k], field_type |-> frame.list[1]]
      [] frame.fn = "Record" ->
            [value |-> IF frame.value.kind = "array" THEN frame.value.elems[k]
                       ELSE frame.value.props[k],
             field_type |-> frame.list[1]]
      [] frame.fn = "Union" ->
            [value |-> frame.value, field_type |-> frame.list[k]]
      [] OTHER ->
            [value |-> Reflect_get(frame.value, frame.list[k].key),
             field_type |-> frame.list[k].field_type]

\* the frame on top returns b to its caller
pop(stack, b) == [stack |-> SubSeq(stack, 1, Len(stack) - 1), ret |-> Returned(b)]

\* the frame on top, changed to top, goes on with its loop
go_on(stack, top) == [stack |-> [stack EXCEPT ![Len(stack)] = top], ret |-> NoReturn]

\* the frame on top, changed to top, calls validate_value_bool(value, field_type)
call_value(stack, top, value, field_type) ==
    LET under == [stack EXCEPT ![Len(stack)] = top]
    IN  IF makes_calls(value, field_type)
        THEN [stack |-> Append(under, frame_of(value, field_type)), ret |-> NoReturn]
        ELSE [stack |-> under, ret |-> Returned(validate_value_bool(value, field_type))]

\* the loop of the frame on top has visited every position
loop_end(stack) ==
    LET top == stack[Len(stack)]
    IN  CASE top.fn = "validate_asymmetric_fast" ->
                pop(stack, BitAnd(top.present_mask, top.required_mask) = top.required_mask)
          [] top.fn = "Union" -> pop(stack, FALSE)
          [] OTHER            -> pop(stack, TRUE)

\* one iteration of the loop of the frame on top, at position k
loop_body(stack, k) ==
    LET top         == stack[Len(stack)]
        rest        == [top EXCEPT !.todo = top.todo \ {k}]
        field_value == callee(top, k).value
        field_type  == callee(top, k).field_type
    IN  CASE top.fn \in {"validate_value_internal", "validate_object_bool"} ->
                IF top.list[k].required /\ is_undefined(field_value) THEN pop(stack, FALSE)
                ELSE IF ~is_undefined(field_value)
                     THEN call_value(stack, rest, field_value, field_type)
                     ELSE go_on(stack, rest)
          [] top.fn = "validate_asymmetric_fast" ->
                LET bit  == Shl1(k - 1)
                    req  == IF top.list[k].required THEN BitOr(top.required_mask, bit)
                            ELSE top.required_mask
                    seen == [rest EXCEPT !.required_mask = req]
                IN  IF ~is_undefined(field_value)
                    THEN call_value(stack,
                                    [seen EXCEPT !.present_mask = BitOr(top.present_mask, bit)],
                                    field_value, field_type)
                    ELSE go_on(stack, seen)
          [] OTHER -> call_value(stack, rest, field_value, field_type)

\* the callee returned ret to the frame on top
after_return(stack, ret) ==
    LET top == stack[Len(stack)]
    IN  IF top.fn = "Union"
        THEN IF ret = Returned(TRUE) THEN pop(stack, TRUE) ELSE go_on(stack, top)
        ELSE IF ret = Returned(FALSE) THEN pop(stack, FALSE) ELSE go_on(stack, top)

\* the stack and the return register after one step; k is the position visited
\* when the step is an iteration of a loop
step_of(stack, ret, k) ==
    IF ret # NoReturn THEN after_return(stack, ret)
    ELSE IF stack[Len(stack)].todo = {} THEN loop_end(stack)
    ELSE loop_body(stack, k)

\* the validators validate_batch_vectorized reads: self.fast_fields
fast_validators ==
    [i \in DOMAIN fast_fields |->
        FieldValidator(fast_fields[i][2], FALSE, fast_fields[i][1])]

\* the validators of the root map in its iteration order
root_validators == [i \in DOMAIN order |-> schema[order[i]]]

\* the first activation of validate_value_internal(value), or what it returns
\* without looping
enter_internal(value) ==
    IF ~is_object(value) \/ ~is_Object(value)
    THEN [stack |-> <<>>, ret |-> Returned(FALSE)]
    ELSE [stack |-> <<Frame("validate_value_internal", value, root_validators,
                            DOMAIN root_validators, TRUE)>>,
          ret |-> NoReturn]

\* the first activation for one item of a batch
enter_item(item) ==
    IF dispatch_tier = "vectorized"
    THEN IF ~is_Object(item) THEN [stack |-> <<>>, ret |-> Returned(FALSE)]
         ELSE [stack |-> <<Frame("validate_batch_vectorized", item, fast_validators,
                                 DOMAIN fast_validators, TRUE)>>,
               ret |-> NoReturn]
    ELSE IF ~is_object(item) \/ ~is_Object(item)
         THEN [stack |-> <<>>, ret |-> Returned(FALSE)]
         ELSE [stack |-> <<Frame("validate_asymmetric_fast", item, root_validators,
                                 1..Min(Len(order), BITMAP_WIDTH), TRUE)>>,
               ret |-> NoReturn]


\* validate(value), up to its first activation
validate_begin(value) ==
    LET first == enter_internal(value)
    IN  /\ call = Idle
        /\ call' = [pc |-> "run", op |-> "validate", arg |-> value, i |-> 0,
                    results |-> <<>>, stack |-> first.stack, ret |-> first.ret]
        /\ UNCHANGED <<schema, order, custom_types, cache, last>>

\* validate_batch(items), up to the loop over the items; the strict, union and
\* mixed tiers make no nested call and fill results in their own loops
validate_batch_begin(items) ==
    LET len     == Len(items)
        results == [i \in 1..len |-> Undefined]
        runs    == dispatch_tier \in {"vectorized", "asymmetric"}
    IN  /\ call = Idle
        /\ call' = [pc |-> "run", op |-> "validate_batch", arg |-> items,
                    i |-> IF runs THEN 0 ELSE len,
                    results |-> IF runs THEN results ELSE validate_batch_results(items),
                    stack |-> <<>>, ret |-> NoReturn]
        /\ UNCHANGED <<schema, order, custom_types, cache, last>>

\* for i in ..len: the item at index i is entered, or its result is stored
batch_item ==
    /\ call.pc = "run"
    /\ call.op = "validate_batch"
    /\ call.stack = <<>>
    /\ call.i < Len(call.arg)
    /\ IF call.ret = NoReturn
       THEN LET first == enter_item(call.arg[call.i + 1])
            IN  call' = [call EXCEPT !.stack = first.stack, !.ret = first.ret]
       ELSE call' = [call EXCEPT !.results[call.i + 1] = from_bool(call.ret = Returned(TRUE)),
                                 !.i = call.i + 1,
                                 !.ret = NoReturn]
    /\ UNCHANGED <<schema, order, custom_types, cache, last>>

\* One step of the activation on top of the stack. The stack holds at most
\* MaxStack activations: one more exhausts it, the call is aborted and gives
\* the host no result.
step ==
    /\ call.pc = "run"
    /\ call.stack # <<>>
    /\ \E k \in (IF call.ret = NoReturn /\ call.stack[Len(call.stack)].todo # {}
                 THEN next_positions(call.stack[Len(call.stack)]) ELSE {0}) :
          LET after == step_of(call.stack, call.ret, k)
          IN  call' = IF Len(after.stack) <= MaxStack
                      THEN [call EXCEPT !.stack = after.stack, !.ret = after.ret]
                      ELSE [pc |-> "overflow", op |-> call.op, arg |-> call.arg]
    /\ UNCHANGED <<schema, order, custom_types, cache, last>>

\* the call returns to the host
call_return ==
    /\ call.pc = "run"
    /\ call.stack = <<>>
    /\ \/ /\ call.op = "validate"
          /\ call.ret # NoReturn
          /\ last' = [op |-> "validate", value |-> call.arg,
                      result |-> (call.ret = Returned(TRUE))]
       \/ /\ call.op = "validate_batch"
          /\ call.ret = NoReturn
          /\ call.i = Len(call.arg)
          /\ last' = [op |-> "validate_batch", items |-> call.arg, result |-> call.results]
    /\ call' = Idle
    /\ UNCHANGED <<schema, order, custom_types, cache>>

\* DhiCore::new()
Init ==
    /\ schema = EmptySchema
    /\ order = <<>>
    /\ custom_types = EmptySchema
    /\ has_complex_types = FALSE
    /\ is_strict_primitive_schema = FALSE
    /\ has_unions = FALSE
    /\ has_mixed_arrays = FALSE
    /\ strict_fields = <<>>
    /\ fast_fields = <<>>
    /\ presence_bitmap_cache = EmptySchema
    /\ last = [op |-> "new"]
    /\ call = Idle

\* Every public operation, with its arguments drawn from the sets of c:
\*   TN type names, CF / CD / CR the field names, descriptors and required flags
\*   given to add_field_to_custom_type, FN / D / R those given to add_field and
\*   add_object_field, P / NF / ND / NR the paths, field names, descriptors and
\*   required flags given to add_nested_field, VT the arguments of
\*   set_value_type, V the values validated, B the batches validated.
NextOver(c) ==
    \/ \E t \in c.TN : define_custom_type(t)
    \/ \E t \in c.TN, f \in c.CF, d \in c.CD, r \in c.CR :
          add_field_to_custom_type(t, f, d, r)
    \/ \E f \in c.FN, d \in c.D, r \in c.R :
          \E ord \in orders_after_insert(c, f) : add_field(f, d, r, ord)
    \/ \E f \in c.FN, r \in c.R :
          \E ord \in orders_after_insert(c, f) : add_object_field(f, r, ord)
    \/ \E p \in c.P, f \in c.NF, d \in c.ND, r \in c.NR :
          \E ord \in (IF p = <<>> THEN orders_after_insert(c, f) ELSE {order}) :
              add_nested_field(p, f, d, r, ord)
    \/ \E b \in BOOLEAN : set_optional(b)
    \/ \E b \in BOOLEAN : set_nullable(b)
    \/ \E d \in c.VT : set_value_type(d)
    \/ \E v \in c.V : validate(v)
    \/ \E items \in c.B : validate_batch(items)

-----------------------------------------------------------------------------
(* Bounds and input sets *)

MaxBatch == 2
MaxArrayLen == 2

\* every plain object with own properties among keys and property values in vals
ObjectsOver(keys, vals) ==
    {Obj(p) : p \in UNION {[ks -> vals] : ks \in SUBSET keys}}

ArraysOver(vals) == {Arr(es) : es \in UNION {[1..n -> vals] : n \in 0..MaxArrayLen}}

BatchesOver(items) == UNION {[1..n -> items] : n \in 0..MaxBatch}

BadDescriptor == <<"foo">>

\* The builder specification: one root field added by name, a second root field
\* and two levels of nested Object schemas added by path, one custom type.
SpecValues == ObjectsOver({"a"}, {Str("x"), Obj(NoProps)}) \cup {Null}

SpecCfg ==
    [TN |-> {"T"}, CF |-> {"c"}, CD |-> {<<"string">>, BadDescriptor}, CR |-> {TRUE},
     FN |-> {"a"}, D |-> {<<"string">>, BadDescriptor}, R |-> BOOLEAN,
     P  |-> {<<>>, <<"a">>, <<"a", ".", "c">>, <<"a", ".">>}, NF |-> {"c"},
     ND |-> {<<"object">>, <<"T">>, BadDescriptor}, NR |-> {TRUE},
     VT |-> {<<"x">>},
     V  |-> SpecValues,
     B  |-> BatchesOver({Obj(NoProps), Null})]

Next == NextOver(SpecCfg)

Spec == Init /\ [][Next]_vars

-----------------------------------------------------------------------------
(* C2: cached classification *)

CacheFresh ==
    /\ has_complex_types = compute_has_complex_types(schema)
    /\ has_unions = compute_has_unions(schema)
    /\ has_mixed_arrays = compute_has_mixed_arrays(schema)
    /\ is_strict_primitive_schema = compute_is_strict_primitive_schema(schema)
    /\ strict_fields = compute_strict_fields(schema, order)
    /\ fast_fields = compute_fast_fields(schema, order)

\* C2: in every reachable state the cached classification (has_complex_types,
\* has_unions, has_mixed_arrays, is_strict_primitive_schema, strict_fields,
\* fast_fields) equals its recomputation from the current root schema.  Stated
\* here for the states with a non-empty root schema, that is after the first
\* insertion has run invalidate_cache (new() itself sets
\* is_strict_primitive_schema to false where the analysis of the empty schema
\* gives true).
C2_CacheNeverStale == schema # EmptySchema => CacheFresh

-----------------------------------------------------------------------------
(* C1: batch / single equivalence *)

\* C1: validate_batch(items) yields at each index i the boolean validate(items[i])
\* yields, whichever tier the cached classification selects.
C1_BatchEqualsSingle ==
    last.op = "validate_batch" =>
        \A i \in DOMAIN last.items :
            last.result[i] = from_bool(validate_value_internal(last.items[i]))

-----------------------------------------------------------------------------
(* C8: a failed builder call changes nothing *)

FailedAdd(l) ==
    /\ l.op \in {"add_field", "add_nested_field", "add_field_to_custom_type"}
    /\ l.result # Ok

\* C8: when add_field, add_nested_field or add_field_to_custom_type returns an
\* error, the root schema, the nested schemas, the custom-type registry and the
\* cached classification are what they were before the call.
C8_FailedCallChangesNothing ==
    [][FailedAdd(last') => UNCHANGED <<schema, order, custom_types, cache>>]_vars

\* a call with a good descriptor and a path through a field that is no Object,
\* made on a schema and a registry that hold fields
C8_Witness ==
    /\ last.op = "add_nested_field"
    /\ last.result = ErrInvalidObjectPath
    /\ "c" \in DOMAIN schema
    /\ "T" \in DOMAIN custom_types /\ custom_types["T"] # EmptySchema

-----------------------------------------------------------------------------
(* C9: add_nested_field and its path *)

\* the segment sequences that lead from sch through Object-typed fields only
RECURSIVE ObjectPaths(_)
ObjectPaths(sch) ==
    {<<>>} \cup
    UNION {{<<f>> \o q : q \in ObjectPaths(sch[f].field_type.fields)} :
             f \in {g \in DOMAIN sch : sch[g].field_type.tag = "Object"}}

\* the Object schema at the end of a path of ObjectPaths(sch)
RECURSIVE SchemaAt(_, _)
SchemaAt(sch, segs) ==
    IF segs = <<>> THEN sch
    ELSE SchemaAt(sch[Head(segs)].field_type.fields, Tail(segs))

\* a schema's own fields, without what the Object fields hold
Shallow(sch) ==
    [f \in DOMAIN sch |->
        IF sch[f].field_type.tag = "Object"
        THEN [sch[f] EXCEPT !.field_type = TObject(EmptySchema)]
        ELSE sch[f]]

IsPrefix(q, segs) == Len(q) <= Len(segs) /\ SubSeq(segs, 1, Len(q)) = q

\* the dot-separated segments of a path; none for the empty path
Segments(object_path) == IF object_path = <<>> THEN <<>> ELSE path_parts(object_path)

NestedCallOk(l, sch, sch2, ct) ==
    LET segs   == Segments(l.object_path)
        parsed == parse_field_type(ct, l.field_type)
        target == SchemaAt(sch, segs)
        below  == Append(segs, l.field_name)
    IN  /\ segs \in ObjectPaths(sch2)
        /\ SchemaAt(sch2, segs) =
              Insert(target, l.field_name,
                     FieldValidator(parsed.ty, l.required, l.field_name))
        /\ \A q \in ObjectPaths(sch) :
              (q # segs /\ ~IsPrefix(below, q)) =>
                  /\ q \in ObjectPaths(sch2)
                  /\ Shallow(SchemaAt(sch2, q)) = Shallow(SchemaAt(sch, q))

\* C9: with a valid descriptor, add_nested_field fails with the invalid-path
\* error exactly when the non-empty path does not lead through existing
\* Object-typed fields; otherwise (the empty path being the root) the field is
\* inserted into the schema the path designates, and nothing else changes.
C9_NestedFieldPath ==
    [][(last'.op = "add_nested_field"
          /\ parse_field_type(custom_types, last'.field_type).ok) =>
          /\ (last'.result = ErrInvalidObjectPath) <=>
                (Segments(last'.object_path) \notin ObjectPaths(schema))
          /\ last'.result \in {Ok, ErrInvalidObjectPath}
          /\ last'.result = Ok => NestedCallOk(last', schema, schema', custom_types)
          /\ custom_types' = custom_types
       ]_vars

\* a field was inserted two levels down, beside a root field that stayed
C9_Witness ==
    /\ last.op = "add_nested_field" /\ last.result = Ok
    /\ last.object_path = <<"a", ".", "c">>
    /\ "c" \in DOMAIN schema
    /\ "c" \in DOMAIN schema["a"].field_type.fields["c"].field_type.fields

-----------------------------------------------------------------------------
(* C10: define_custom_type is idempotent *)

\* C10: define_custom_type(name) registers an empty schema for an unregistered
\* name and leaves the registry as it is for a registered one, fields included.
C10_DefineIdempotent ==
    [][last'.op = "define_custom_type" =>
          /\ custom_types' =
                IF last'.type_name \in DOMAIN custom_types THEN custom_types
                ELSE Insert(custom_types, last'.type_name, EmptySchema)
          /\ UNCHANGED <<schema, order, cache>>
       ]_vars

\* the type was defined again after a field had been added to it
C10_Witness ==
    /\ last.op = "define_custom_type"
    /\ custom_types[last.type_name] # EmptySchema

-----------------------------------------------------------------------------
(* The field specification: a root field of a primitive, Object or custom     *)
(* type, a second root field, one level of nested fields, required or not.    *)

InnerObjects == ObjectsOver({"c"}, {Str("x"), Num})

FieldsValues ==
    {Obj(p) : p \in UNION {[ks -> {Str("x"), Num, Bool(TRUE)} \cup InnerObjects] :
                             ks \in SUBSET {"a"}}}
    \cup {Obj([k \in {"a", "c"} |-> IF k = "a" THEN o ELSE Str("x")]) :
             o \in {Str("x")} \cup InnerObjects}
    \cup {Null}

FieldsCfg ==
    [TN |-> {"T"}, CF |-> {"c"}, CD |-> {<<"string">>}, CR |-> BOOLEAN,
     FN |-> {"a"}, D |-> {<<"string">>, <<"number">>, <<"T">>}, R |-> BOOLEAN,
     P  |-> {<<>>, <<"a">>}, NF |-> {"c"}, ND |-> {<<"string">>}, NR |-> BOOLEAN,
     VT |-> {<<"boolean">>},
     V  |-> FieldsValues,
     B  |-> BatchesOver({Obj(NoProps), Null})]

NextFields == NextOver(FieldsCfg)

SpecFields == Init /\ [][NextFields]_vars

\* the schema a value of the field type is validated against, if it is one
HasSubSchema(t) == t.tag = "Object" \/ (t.tag = "Custom" /\ t.name \in DOMAIN custom_types)
SubSchema(t) == IF t.tag = "Object" THEN t.fields ELSE custom_types[t.name]

WithoutProp(v, f) == Obj([k \in (DOMAIN v.props) \ {f} |-> v.props[k]])
WithProp(v, f, w) == Obj([k \in (DOMAIN v.props) \cup {f} |-> IF k = f THEN w ELSE v.props[k]])

-----------------------------------------------------------------------------
(* C3: required and optional fields *)

\* the objects got from v by removing the property of one field of sch, at this
\* level or inside the value of an Object or custom-type field, each with the
\* required flag of the field whose property went
RECURSIVE Removals(_, _)
Removals(v, sch) ==
    IF v.kind # "object" THEN {}
    ELSE LET here == (DOMAIN sch) \cap (DOMAIN v.props)
         IN  {[val |-> WithoutProp(v, f), required |-> sch[f].required, nested |-> FALSE] :
                  f \in here}
             \cup UNION {
                  {[val |-> WithProp(v, f, r.val), required |-> r.required, nested |-> TRUE] :
                      r \in Removals(v.props[f], SubSchema(sch[f].field_type))} :
                  f \in {g \in here : HasSubSchema(sch[g].field_type)}}

-----------------------------------------------------------------------------
(* C4: the type tag of a primitive field *)

Substitutes == {Undefined, Null, Str("x"), Num, Bool(TRUE), Obj(NoProps), Arr(<<>>)}

\* the dynamic type a primitive field type asks for
KindOfType(t) ==
    CASE t.tag = "String"  -> "string"
      [] t.tag = "Number"  -> "number"
      [] t.tag = "Boolean" -> "boolean"

\* the objects got from v by giving the property of one String, Number or Boolean
\* field of sch (at this level or nested) a value w of another dynamic type
RECURSIVE Replacements(_, _)
Replacements(v, sch) ==
    IF v.kind # "object" THEN {}
    ELSE LET here == (DOMAIN sch) \cap (DOMAIN v.props)
         IN  UNION {
                  {[val |-> WithProp(v, f, w), required |-> sch[f].required,
                    w |-> w, nested |-> FALSE] :
                      w \in {x \in Substitutes : x.kind # KindOfType(sch[f].field_type)}} :
                  f \in {g \in here : IsPrimitiveType(sch[g].field_type)}}
             \cup UNION {
                  {[val |-> WithProp(v, f, r.val), required |-> r.required,
                    w |-> r.w, nested |-> TRUE] :
                      r \in Replacements(v.props[f], SubSchema(sch[f].field_type))} :
                  f \in {g \in here : HasSubSchema(sch[g].field_type)}}

\* C4 as stated: for an object that validate accepts, replacing the value of a
\* String, Number or Boolean field by a value of a different dynamic type makes
\* validate return false.
C4_TypeTagAsStated ==
    (last.op = "validate" /\ last.result) =>
        \A r \in Replacements(last.value, schema) : ~validate_value_internal(r.val)

\* C4: for an object that validate accepts, replacing the value of a String,
\* Number or Boolean field by a value of a different dynamic type other than
\* undefined makes validate return false; replacing it by undefined makes
\* validate return false exactly when the field is required.
C4_TypeTag ==
    (last.op = "validate" /\ last.result) =>
        \A r \in Replacements(last.value, schema) :
            validate_value_internal(r.val) = (is_undefined(r.w) /\ ~r.required)

\* an accepted object with a primitive field at the root and one inside a nested
\* value, one of them optional and one required
C4_Witness ==
    /\ last.op = "validate" /\ last.result
    /\ \E r \in Replacements(last.value, schema) : r.nested /\ ~is_undefined(r.w)
    /\ \E r \in Replacements(last.value, schema) : ~r.nested /\ is_undefined(r.w) /\ r.required
    /\ \E r \in Replacements(last.value, schema) : is_undefined(r.w) /\ ~r.required
-----------------------------------------------------------------------------
(* The type specification: one root field a of a union, enum or marker type, *)
(* read against every dynamic type of value.                                  *)

UnionStringNumber == <<"Union<", "string", ",", "number", ">">>
UnionCustomNull   == <<"Union<", "T", ",", " ", "null", ">">>
UnionArrayBoolean == <<"Union<", "Array<", "string", ">", ",", "boolean", ">">>
EnumRedGreen      == <<"enum:", "red", ",", "green">>

TypesFieldValues ==
    {Undefined, Null, Str("red"), Str("Red"), Str("x"), Num, Bool(TRUE)}
    \cup ArraysOver({Str("x"), Num})
    \cup ObjectsOver({"c"}, {Str("x"), Num})

TypesValues == ObjectsOver({"a"}, TypesFieldValues) \cup {Null}

TypesCfg ==
    [TN |-> {"T"}, CF |-> {"c"}, CD |-> {<<"string">>}, CR |-> {TRUE},
     FN |-> {"a"},
     D  |-> {<<"never">>, <<"unknown">>, EnumRedGreen,
             UnionStringNumber, UnionCustomNull, UnionArrayBoolean},
     R  |-> BOOLEAN,
     P  |-> {<<>>}, NF |-> {"a"}, ND |-> {<<"never">>}, NR |-> {TRUE},
     VT |-> {<<"any">>},
     V  |-> TypesValues,
     B  |-> BatchesOver({Obj(NoProps), Null})]

NextTypes == NextOver(TypesCfg)

SpecTypes == Init /\ [][NextTypes]_vars

\* validate has just read a plain object against a schema whose field a has tag t
ValidatedField(t) ==
    /\ last.op = "validate" /\ last.value.kind = "object"
    /\ DOMAIN schema = {"a"} /\ schema["a"].field_type.tag = t

\* the outcome of validate for the one field a, given the outcome of its type check
FieldOutcome(type_ok) ==
    LET v == Reflect_get(last.value, "a")
    IN  IF is_undefined(v) THEN ~schema["a"].required ELSE type_ok

-----------------------------------------------------------------------------
(* C5: unions *)

MemberOrders(seq) == {[i \in DOMAIN seq |-> seq[p[i]]] : p \in Perms(DOMAIN seq)}

SomeMemberPasses(v, types) == \E i \in DOMAIN types : validate_value_bool(v, types[i])

\* C5: a value passes the Union(types) check if and only if it passes the check
\* of at least one member type, the result is the same for every permutation of
\* the member list, and validate reports that result for a union-typed field.
C5_UnionIffSomeMember ==
    ValidatedField("Union") =>
        LET types == schema["a"].field_type.types
        IN  /\ \A v \in TypesFieldValues :
                 \A perm \in MemberOrders(types) :
                     validate_value_bool(v, TUnion(perm)) = SomeMemberPasses(v, types)
            /\ last.result = FieldOutcome(SomeMemberPasses(Reflect_get(last.value, "a"), types))

\* validate accepted a value that passes only the custom-type member of a
\* two-member union, the custom type having a field of its own
C5_Witness ==
    /\ ValidatedField("Union") /\ last.result
    /\ LET types == schema["a"].field_type.types
           v     == Reflect_get(last.value, "a")
       IN  /\ Len(types) = 2 /\ ~IsPrimitiveType(types[1])
           /\ ~is_undefined(v)
           /\ validate_value_bool(v, types[1]) /\ ~validate_value_bool(v, types[2])
           /\ types[1].tag = "Custom" /\ "c" \in DOMAIN custom_types["T"]

-----------------------------------------------------------------------------
(* C6: enums *)

-----------------------------------------------------------------------------
(* C7: never, unknown, any *)

\* C7 as stated: no object is accepted when the field is typed never, and every
\* value of the field, null and undefined included, is accepted when it is typed
\* unknown or any.
C7_NeverUnknownAsStated ==
    /\ ValidatedField("Never") => ~last.result
    /\ (ValidatedField("Unknown") \/ ValidatedField("Any")) => last.result

\* C7: the never check fails and the unknown and any checks pass for every value.
\* A field typed never rejects every present value of the field, null included,
\* and an object is accepted exactly when that field is optional and its property
\* is absent or undefined. A field typed unknown or any accepts every present
\* value, null included, and an absent or undefined one exactly when the field
\* is optional.
C7_NeverUnknown ==
    /\ \A v \in TypesFieldValues :
          /\ ~validate_value_bool(v, TNever)
          /\ validate_value_bool(v, TUnknown)
          /\ validate_value_bool(v, TAny)
    /\ ValidatedField("Never") => (last.result = FieldOutcome(FALSE))
    /\ (ValidatedField("Unknown") \/ ValidatedField("Any")) => (last.result = FieldOutcome(TRUE))

\* an optional never field with its property absent was accepted
C7_Witness ==
    /\ ValidatedField("Never")
    /\ ~schema["a"].required
    /\ is_undefined(Reflect_get(last.value, "a"))
    /\ last.result
-----------------------------------------------------------------------------
(* C11: set_optional, set_nullable, set_value_type *)

\* the call recorded in l added or replaced the root field l.field_name
RootAdd(l) ==
    /\ l.op \in {"add_field", "add_object_field", "add_nested_field"}
    /\ l.result = Ok
    /\ l.op = "add_nested_field" => l.object_path = <<>>

\* C11: a set_optional(b), set_nullable(b) or set_value_type(d) call that follows
\* an add call changes exactly the root field that add call added (required
\* becomes not b, or the type becomes the one d names) and leaves every other
\* field as it was.
C11_SetActsOnLastAdded ==
    [][(RootAdd(last) /\ last'.op \in {"set_optional", "set_nullable", "set_value_type"}) =>
          LET f   == last.field_name
              new == IF last'.op = "set_value_type"
                     THEN [schema[f] EXCEPT !.field_type = value_type_of(last'.value_type)]
                     ELSE [schema[f] EXCEPT !.required = ~last'.flag]
          IN  schema' = [schema EXCEPT ![f] = new]]_vars
-----------------------------------------------------------------------------
(* The parser specification: one root field a declared with descriptors of    *)
(* every form, nested Object and custom-type fields, two custom type names.   *)

\* derivations of the descriptor grammar
DPrim(name)  == [form |-> "primitive", name |-> name]
DCustom(n)   == [form |-> "custom", name |-> n]
DArray(d)    == [form |-> "array", of |-> d]
DRecord(d)   == [form |-> "record", of |-> d]
DUnion(ds)   == [form |-> "union", of |-> ds]

\* the descriptor a derivation spells
RECURSIVE Render(_)
RECURSIVE RenderList(_)
RenderList(ds) ==
    IF Len(ds) = 1 THEN Render(ds[1])
    ELSE Render(Head(ds)) \o <<",">> \o RenderList(Tail(ds))
Render(d) ==
    CASE d.form \in {"primitive", "custom"} -> <<d.name>>
      [] d.form = "array"  -> <<"Array<">> \o Render(d.of) \o <<">">>
      [] d.form = "record" -> <<"Record<">> \o Render(d.of) \o <<">">>
      [] d.form = "union"  -> <<"Union<">> \o RenderList(d.of) \o <<">">>

PrimitiveType(name) ==
    CASE name = "string"    -> TString
      [] name = "number"    -> TNumber
      [] name = "boolean"   -> TBoolean
      [] name = "null"      -> TNull
      [] name = "undefined" -> TUndefined
      [] name = "void"      -> TVoid

\* the FieldType with the structure of a derivation
RECURSIVE Mirror(_)
Mirror(d) ==
    CASE d.form = "primitive" -> PrimitiveType(d.name)
      [] d.form = "custom" -> TCustom(d.name)
      [] d.form = "array"  -> TArray(Mirror(d.of))
      [] d.form = "record" -> TRecord(Mirror(d.of))
      [] d.form = "union"  -> TUnion([i \in DOMAIN d.of |-> Mirror(d.of[i])])

\* the custom type names a derivation uses
RECURSIVE NamesUsed(_)
NamesUsed(d) ==
    CASE d.form = "primitive" -> {}
      [] d.form = "custom" -> {d.name}
      [] d.form \in {"array", "record"} -> NamesUsed(d.of)
      [] d.form = "union"  -> UNION {NamesUsed(d.of[i]) : i \in DOMAIN d.of}

UnionOfStringNumber == DUnion(<<DPrim("string"), DPrim("number")>>)

Derivations ==
    {DPrim("string"), DPrim("undefined"), DPrim("void"), DCustom("T"),
     DArray(DPrim("number")), DRecord(DArray(DCustom("T"))),
     UnionOfStringNumber,
     DArray(UnionOfStringNumber),
     DUnion(<<DArray(DPrim("string")), DCustom("T"), DPrim("null")>>),
     DUnion(<<UnionOfStringNumber, DPrim("boolean")>>)}

ParseValues == ObjectsOver({"a"}, {Undefined, Null, Str("x"), Obj(NoProps)}) \cup {Null}

ParseCfg ==
    [TN |-> {"T", "U"}, CF |-> {"c"}, CD |-> {<<"T">>, <<"U">>}, CR |-> {TRUE},
     FN |-> {"a"}, D |-> {Render(d) : d \in Derivations} \cup {BadDescriptor},
     R  |-> BOOLEAN,
     P  |-> {<<"a">>}, NF |-> {"c"}, ND |-> {<<"T">>}, NR |-> {TRUE},
     VT |-> {<<"T">>},
     V  |-> ParseValues,
     B  |-> BatchesOver({Obj(NoProps), Null})]

NextParse == NextOver(ParseCfg)

SpecParse == Init /\ [][NextParse]_vars

-----------------------------------------------------------------------------
(* C12: parse_field_type *)

\* C12: add_field with the descriptor of a derivation of the grammar whose custom
\* names are registered succeeds and gives the field the type that mirrors the
\* derivation, a nested Union as a member included; a descriptor matching no
\* rule fails with the unsupported-type error.
C12_ParseMirrorsDescriptor ==
    last.op = "add_field" =>
        /\ \A d \in Derivations :
              (Render(d) = last.field_type /\ NamesUsed(d) \subseteq DOMAIN custom_types) =>
                  /\ last.result = Ok
                  /\ schema[last.field_name].field_type = Mirror(d)
        /\ last.field_type = BadDescriptor => last.result = ErrUnsupportedType
-----------------------------------------------------------------------------
(* C19: undefined and void fields *)

ValidatedUndefinedField == ValidatedField("Undefined") \/ ValidatedField("Void")

\* C19 as stated: for a field declared undefined or void, validate accepts an
\* object exactly when the property is absent or undefined, whether the field
\* is required or optional.
C19_UndefinedFieldAsStated ==
    ValidatedUndefinedField => (last.result = (Reflect_get(last.value, "a") = Undefined))

\* C19: for an optional field declared undefined or void, validate accepts an
\* object when the property is absent or undefined and rejects it when the
\* property holds any other value, null included; for a required field declared
\* undefined or void, validate rejects every object.
C19_UndefinedField ==
    ValidatedUndefinedField =>
        (last.result = (~schema["a"].required /\ Reflect_get(last.value, "a") = Undefined))

\* a required undefined-typed field rejected an object without the property
C19_Witness ==
    /\ ValidatedField("Undefined")
    /\ schema["a"].required
    /\ Reflect_get(last.value, "a") = Undefined
    /\ ~last.result

-----------------------------------------------------------------------------
(* C20: custom type references *)

\* the custom type names occurring in a type, at any depth
RECURSIVE CustomNamesOfType(_)
RECURSIVE CustomNamesOfSchema(_)
CustomNamesOfSchema(sch) == UNION {CustomNamesOfType(sch[f].field_type) : f \in DOMAIN sch}
CustomNamesOfType(t) ==
    CASE t.tag = "Custom" -> {t.name}
      [] t.tag \in {"Array", "Record"} -> CustomNamesOfType(t.item)
      [] t.tag = "Union"  -> UNION {CustomNamesOfType(t.types[i]) : i \in DOMAIN t.types}
      [] t.tag = "Object" -> CustomNamesOfSchema(t.fields)
      [] OTHER -> {}

\* C20: every Custom(name) occurring in the root schema, in a nested Object
\* schema, in an Array, Record or Union member or in a custom type's schema
\* names a registered custom type.
C20_CustomAlwaysRegistered ==
    /\ CustomNamesOfSchema(schema) \subseteq DOMAIN custom_types
    /\ \A n \in DOMAIN custom_types :
          CustomNamesOfSchema(custom_types[n]) \subseteq DOMAIN custom_types

\* a custom type inside a Record of Arrays at the root, and a custom type whose
\* own schema names the other custom type, both registered, read by validate
C20_Witness ==
    /\ last.op = "validate"
    /\ "a" \in DOMAIN schema /\ schema["a"].field_type = TRecord(TArray(TCustom("T")))
    /\ "T" \in DOMAIN custom_types /\ "c" \in DOMAIN custom_types["T"]
    /\ custom_types["T"]["c"].field_type = TCustom("U")
-----------------------------------------------------------------------------
(* C13: the union tier *)

HasRootField(tags) == \E f \in DOMAIN schema : schema[f].field_type.tag \in tags

\* validate_batch gave every item the result of single validation of that item
BatchIsSingle ==
    /\ Len(last.result) = Len(last.items)
    /\ \A i \in DOMAIN last.items :
          last.result[i] = Bool(validate_value_internal(last.items[i]))

\* C13: for a schema with a Union root field, dispatched to the union tier,
\* validate_batch gives each item the result of the recursive single-value
\* validation of that item against the registered schema.
C13_UnionTierIsRecursive ==
    (last.op = "validate_batch" /\ dispatch_tier = "union" /\ HasRootField({"Union"})) =>
        BatchIsSingle
-----------------------------------------------------------------------------
(* The tier specification: a root field a (primitive, Array or Object) and a  *)
(* root field c (primitive or Object, with a nested field), read in batches.  *)

TierArrays == {Arr(<<>>), Arr(<<Str("x")>>), Arr(<<Num>>)}

TierItems ==
    {Obj(p) : p \in UNION {[ks -> {Str("x"), Num, Obj(NoProps), Obj([k \in {"c"} |-> Num])}
                                  \cup TierArrays] : ks \in SUBSET {"a", "c"}}}
    \cup {Null}

TiersCfg ==
    [TN |-> {"T"}, CF |-> {"c"}, CD |-> {<<"string">>}, CR |-> {TRUE},
     FN |-> {"a"}, D |-> {<<"string">>, <<"Array<", "string", ">">>}, R |-> BOOLEAN,
     P  |-> {<<>>, <<"c">>}, NF |-> {"c"}, ND |-> {<<"object">>, <<"number">>}, NR |-> {TRUE},
     VT |-> {<<"boolean">>},
     V  |-> {Obj(NoProps), Null},
     B  |-> {<<v>> : v \in TierItems} \cup {<<Null, Obj(NoProps)>>}]

NextTiers == NextOver(TiersCfg)

SpecTiers == Init /\ [][NextTiers]_vars

-----------------------------------------------------------------------------
(* C14: the mixed tier *)

\* C14: for a schema without Union fields whose root has an Array field and an
\* Object field, dispatched to the mixed tier, validate_batch gives each item
\* the result of the generic recursive validation of that item against the
\* registered schema.
C14_MixedTierIsGeneric ==
    (/\ last.op = "validate_batch" /\ dispatch_tier = "mixed"
     /\ HasRootField({"Array"}) /\ HasRootField({"Object"}) /\ ~HasRootField({"Union"})) =>
        BatchIsSingle

-----------------------------------------------------------------------------
(* C15: the vectorized tier *)

\* the per-field rule of single validation for the fast_fields entry k
FastFieldRule(item, k) ==
    LET name == fast_fields[k][1]
        v    == Reflect_get(item, name)
    IN  IF v = Undefined THEN ~schema[name].required
        ELSE validate_value_bool(v, fast_fields[k][2])

\* C15: in the vectorized tier each object item is decided by the per-field
\* rules of single validation over the entries of fast_fields: absent and
\* required is false, absent and optional is skipped, present is type-checked.
C15_VectorizedPerFieldRules ==
    (last.op = "validate_batch" /\ dispatch_tier = "vectorized") =>
        \A i \in DOMAIN last.items :
            last.items[i].kind = "object" =>
                last.result[i] = Bool(\A k \in DOMAIN fast_fields : FastFieldRule(last.items[i], k))
-----------------------------------------------------------------------------
(* C18: the presence-bitmap tier *)

\* the mask with the bits presence_bitmap_cache gives the fields of S
MaskOf(S) == UNION {presence_bitmap_cache[f] : f \in S}

PresentFields(item) == {f \in DOMAIN schema : Reflect_get(item, f) # Undefined}
RequiredFields == {f \in DOMAIN schema : schema[f].required}

PresentConform(item) ==
    \A f \in PresentFields(item) : validate_value_bool(Reflect_get(item, f), schema[f].field_type)

\* C18: in the presence-bitmap tier with at most 32 root fields every field has a
\* bit of its own, an object item is valid if and only if
\* (present_mask & required_mask) = required_mask and every present field passes
\* its type check, and that is so if and only if every required field is
\* present and every present field conforms; an item that is no object is
\* invalid.
C18_PresenceBitmap ==
    (/\ last.op = "validate_batch" /\ dispatch_tier = "asymmetric"
     /\ Cardinality(DOMAIN schema) <= BITMAP_WIDTH) =>
        /\ DOMAIN presence_bitmap_cache = DOMAIN schema
        /\ \A f \in DOMAIN schema : \E i \in 0..(BITMAP_WIDTH - 1) :
              presence_bitmap_cache[f] = {i}
        /\ \A f, g \in DOMAIN schema : f # g => presence_bitmap_cache[f] # presence_bitmap_cache[g]
        /\ \A i \in DOMAIN last.items :
              LET item          == last.items[i]
                  present_mask  == MaskOf(PresentFields(item))
                  required_mask == MaskOf(RequiredFields)
              IN  IF item.kind \in {"object", "array"}
                  THEN /\ last.result[i] =
                            Bool(BitAnd(present_mask, required_mask) = required_mask
                                 /\ PresentConform(item))
                       /\ last.result[i] =
                            Bool(RequiredFields \subseteq PresentFields(item)
                                 /\ PresentConform(item))
                  ELSE last.result[i] = Bool(FALSE)

\* the tier accepted an object that lacks an optional field and has a required
\* Object field with a conforming nested value
C18_Witness ==
    /\ last.op = "validate_batch" /\ dispatch_tier = "asymmetric"
    /\ DOMAIN schema = {"a", "c"}
    /\ ~schema["a"].required /\ schema["c"].required
    /\ schema["c"].field_type.tag = "Object" /\ "c" \in DOMAIN schema["c"].field_type.fields
    /\ \E i \in DOMAIN last.items :
          /\ last.result[i] = Bool(TRUE)
          /\ PresentFields(last.items[i]) = {"c"}
-----------------------------------------------------------------------------
(* The strict specification: up to five required primitive root fields, read  *)
(* in batches longer than one window of SIMD_BATCH_SIZE items.                *)

StrictNames == <<"a", "b", "c", "d", "e">>

\* the object with w under a and the string x under b, c, d and e
Base(w) == Obj([k \in {StrictNames[i] : i \in 1..5} |-> IF k = "a" THEN w ELSE Str("x")])

\* a batch of two windows: SIMD_BATCH_SIZE times Base(Num), then item
TwoWindows(item) ==
    [i \in 1..(SIMD_BATCH_SIZE + 1) |-> IF i <= SIMD_BATCH_SIZE THEN Base(Num) ELSE item]

StrictBatches ==
    {TwoWindows(v) : v \in {Base(Num), WithoutProp(Base(Num), "c"),
                            WithProp(Base(Num), "d", Num)}}
    \cup {<<v>> : v \in {Base(Bool(TRUE)), Base(Str("x")),
                         WithProp(Base(Num), "e", Undefined), Null, Arr(<<>>)}}

StrictCfg ==
    [TN |-> {"T"}, CF |-> {"c"}, CD |-> {<<"string">>}, CR |-> {TRUE},
     FN |-> {"a"}, D |-> {<<"number">>, <<"boolean">>}, R |-> {TRUE},
     P  |-> {<<>>}, NF |-> {"b", "c", "d", "e"}, ND |-> {<<"string">>}, NR |-> {TRUE},
     VT |-> {<<"string">>},
     O  |-> StrictNames,
     V  |-> {Base(Num)},
     B  |-> StrictBatches]

NextStrict == NextOver(StrictCfg)

SpecStrict == Init /\ [][NextStrict]_vars

-----------------------------------------------------------------------------
(* C17: the strict-primitive tier *)

\* the type test of a strict_fields tag
TagTest(v, tag) ==
    CASE tag = 0 -> v.kind = "string"
      [] tag = 1 -> v.kind = "number"
      [] tag = 2 -> v.kind = "boolean"
      [] OTHER   -> FALSE

\* the item is an object and every strict_fields property is present, not
\* undefined and of the tag's type
StrictRule(item) ==
    /\ item.kind \in {"object", "array", "date", "function"}
    /\ \A k \in DOMAIN strict_fields :
          LET v == Reflect_get(item, strict_fields[k][1])
          IN  v # Undefined /\ TagTest(v, strict_fields[k][2])

\* C17: in the strict-primitive tier an item is valid if and only if it is an
\* object and every (key, tag) of strict_fields has its property present, not
\* undefined and passing the tag's type test; whichever variant the field count
\* selects (1, 2, 3, 4 or N fields), every item gets what the generic N-field
\* fallback returns on the same strict_fields.
C17_StrictTier ==
    (last.op = "validate_batch" /\ dispatch_tier = "strict") =>
        /\ Len(last.result) = Len(last.items)
        /\ \A i \in DOMAIN last.items :
              /\ last.result[i] = Bool(StrictRule(last.items[i]))
              /\ last.result[i] = Bool(valid_n_fields(last.items[i]))

\* the three-field variant decided a batch of two windows, accepting items of
\* the first window and rejecting the item of the second for its third field
C17_Witness ==
    /\ last.op = "validate_batch" /\ dispatch_tier = "strict"
    /\ Len(strict_fields) = 3
    /\ Len(last.items) = SIMD_BATCH_SIZE + 1
    /\ last.result[1] = Bool(TRUE)
    /\ last.result[SIMD_BATCH_SIZE + 1] = Bool(FALSE)
    /\ strict_checks(last.items[SIMD_BATCH_SIZE + 1], 2)
-----------------------------------------------------------------------------
(* The wide specification: a root schema of more fields than the presence     *)
(* bitmap has bits. It starts in the state the builder is in after new() and  *)
(* WidePrefix calls add_field(f01 .. , "string", false), and adds the fields  *)
(* around the 32nd from there.                                                *)

WidePrefix == 31

WideName(i) == "f" \o (IF i < 10 THEN "0" ELSE "") \o ToString(i)

\* the iteration order of the root map: by field number
WideNames == [i \in 1..(WidePrefix + 2) |-> WideName(i)]

WideSchema ==
    [n \in {WideName(i) : i \in 1..WidePrefix} |-> FieldValidator(TString, FALSE, n)]

InitWide ==
    LET ord == SubSeq(WideNames, 1, WidePrefix)
    IN  /\ schema = WideSchema
        /\ order = ord
        /\ custom_types = EmptySchema
        /\ has_complex_types = compute_has_complex_types(WideSchema)
        /\ is_strict_primitive_schema = compute_is_strict_primitive_schema(WideSchema)
        /\ has_unions = compute_has_unions(WideSchema)
        /\ has_mixed_arrays = compute_has_mixed_arrays(WideSchema)
        /\ strict_fields = compute_strict_fields(WideSchema, ord)
        /\ fast_fields = compute_fast_fields(WideSchema, ord)
        /\ presence_bitmap_cache = compute_presence_bitmap_cache(WideSchema, ord)
        /\ last = [op |-> "add_field", field_name |-> WideName(WidePrefix),
                   field_type |-> <<"string">>, required |-> FALSE, result |-> Ok]
        /\ call = Idle

WideItems ==
    ObjectsOver({WideName(WidePrefix + 1), WideName(WidePrefix + 2)},
                {Str("x"), Num, Obj(NoProps)})
    \cup {Obj([k \in {WideName(1)} |-> Num]), Null}

WideCfg ==
    [TN |-> {"T"}, CF |-> {"c"}, CD |-> {<<"string">>}, CR |-> {TRUE},
     FN |-> {WideName(WidePrefix + 1), WideName(WidePrefix + 2)},
     D  |-> {<<"string">>}, R |-> BOOLEAN,
     P  |-> {<<>>}, NF |-> {WideName(WidePrefix + 2)}, ND |-> {<<"number">>}, NR |-> {TRUE},
     VT |-> {<<"string">>},
     O  |-> WideNames,
     V  |-> {Obj(NoProps), Null},
     B  |-> {<<v>> : v \in WideItems}]

NextWide == NextOver(WideCfg)

SpecWide == InitWide /\ [][NextWide]_vars

-----------------------------------------------------------------------------
(* C16: more than 32 root fields *)

\* C16: for a complex schema with more than 32 root fields, dispatched to the
\* presence-bitmap tier, validate_batch gives each item the result of the
\* general recursive validator, so the fields beyond the 32nd in iteration
\* order have their required-presence and type constraints checked too.
C16_WideSchemaFallsBack ==
    (/\ last.op = "validate_batch" /\ dispatch_tier = "asymmetric"
     /\ HasRootField({"Object", "Array", "Custom", "Union"})
     /\ Cardinality(DOMAIN schema) > BITMAP_WIDTH) =>
        BatchIsSingle
-----------------------------------------------------------------------------
(* C21: termination. Calls run one activation at a time; a custom type T may  *)
(* hold fields of type T, by the names c and constructor.                     *)

ArrayOfT  == <<"Array<", "T", ">">>
RecordOfT == <<"Record<", "T", ">">>

Chain(n) == IF n = 0 THEN Obj(NoProps)
            ELSE IF n = 1 THEN Obj([k \in {"c"} |-> Obj(NoProps)])
            ELSE Obj([k \in {"c"} |-> Obj([j \in {"c"} |-> Obj(NoProps)])])

RunFieldValues == {Chain(0), Chain(1), Chain(2), Arr(<<Chain(1)>>), Str("x")}

RunValues == {Obj([k \in {"a"} |-> v]) : v \in RunFieldValues} \cup {Obj(NoProps), Null}

RunCfg ==
    [TN |-> {"T"}, CF |-> {"c", "constructor"}, CD |-> {<<"T">>}, CR |-> {FALSE},
     FN |-> {"a"}, D |-> {<<"T">>, ArrayOfT, RecordOfT, UnionCustomNull}, R |-> {TRUE},
     P  |-> {<<"a">>}, NF |-> {"c"}, ND |-> {<<"T">>}, NR |-> {FALSE},
     VT |-> {<<"T">>},
     V  |-> RunValues,
     B  |-> {<<>>, <<Obj([k \in {"a"} |-> Chain(1)])>>,
             <<Null, Obj([k \in {"a"} |-> Chain(0)])>>}]

NextRun ==
    \/ call = Idle /\ \E t \in RunCfg.TN : define_custom_type(t)
    \/ call = Idle /\ \E t \in RunCfg.TN, f \in RunCfg.CF, d \in RunCfg.CD, r \in RunCfg.CR :
          add_field_to_custom_type(t, f, d, r)
    \/ call = Idle /\ \E f \in RunCfg.FN, d \in RunCfg.D, r \in RunCfg.R :
          \E ord \in orders_after_insert(RunCfg, f) : add_field(f, d, r, ord)
    \/ call = Idle /\ \E f \in RunCfg.FN, r \in RunCfg.R :
          \E ord \in orders_after_insert(RunCfg, f) : add_object_field(f, r, ord)
    \/ call = Idle /\ \E p \in RunCfg.P, f \in RunCfg.NF, d \in RunCfg.ND, r \in RunCfg.NR :
          add_nested_field(p, f, d, r, order)
    \/ call = Idle /\ \E b \in BOOLEAN : set_optional(b)
    \/ call = Idle /\ \E b \in BOOLEAN : set_nullable(b)
    \/ call = Idle /\ \E d \in RunCfg.VT : set_value_type(d)
    \/ \E v \in RunCfg.V : validate_begin(v)
    \/ \E items \in RunCfg.B : validate_batch_begin(items)
    \/ step
    \/ batch_item
    \/ call_return

\* A call runs to its end without interruption: validate and validate_batch are
\* synchronous, so a step that can be taken is taken.
SpecRun == Init /\ [][NextRun]_vars /\ WF_vars(step \/ batch_item \/ call_return)

\* C21: validate and validate_batch terminate on every finite, acyclic input,
\* for every schema the builder can make, self-referencing custom types
\* included: every call that begins returns to the host.
C21_Terminates == (call.pc = "run") ~> (call = Idle)

\* no custom type has a field whose name every Object inherits
OwnNamesOnly == \A t \in DOMAIN custom_types : "constructor" \notin DOMAIN custom_types[t]

\* The activations compute what the recursive definitions compute: a call that
\* is about to return holds the result of validate_value_internal, or of the
\* tier of validate_batch, with one result for every index of the input.
RunAgreesWithValidate ==
    (OwnNamesOnly /\ call.pc = "run" /\ call.stack = <<>>) =>
        /\ (call.op = "validate" /\ call.ret # NoReturn) =>
                call.ret = Returned(validate_value_internal(call.arg))
        /\ (call.op = "validate_batch" /\ call.ret = NoReturn /\ call.i = Len(call.arg)) =>
                call.results = validate_batch_results(call.arg)

\* Where every field is read from the value's own properties, the stack never
\* overflows and every call returns, self-referencing custom types included.
OwnPropertyRunsNeverOverflow == (call.pc = "overflow") => ~OwnNamesOnly

OwnPropertyRunsReturn == (call.pc = "run" /\ OwnNamesOnly) ~> (call = Idle)

\* a call over a self-referencing custom type has returned
SelfReferenceReturned ==
    /\ "T" \in DOMAIN custom_types /\ "c" \in DOMAIN custom_types["T"] /\ OwnNamesOnly
    /\ "a" \in DOMAIN schema /\ schema["a"].field_type = TCustom("T")
    /\ last.op = "validate" /\ last.value = Obj([k \in {"a"} |-> Chain(2)]) /\ last.result

\* the call stack was exhausted
StackOverflow == call.pc = "overflow"
====
